---- MODULE Spec2Model ----
(***************************************************************************)
(* SubManager (src/main.py): subscription store, next-bill date arithmetic *)
(* (calculate_next_bill), the daily Bark reminder job (check_and_notify)   *)
(* and the listing endpoint (get_subs).                                    *)
(*                                                                         *)
(* A calendar date is a record [year, month, day], as datetime.date.       *)
(***************************************************************************)
EXTENDS Integers, Sequences, FiniteSets, TLC

VARIABLES
    today,       \* what datetime.date.today() returns now (the wall clock)
    midnights,   \* number of date changes so far (bounds the clock)
    subs,        \* table subs of sub.db, in rowid order
    seq,         \* sqlite_sequence value of table subs (AUTOINCREMENT)
    cycle_day,   \* argument of the calculate_next_bill call under study
    ret,         \* what that call returned (or that it raised)
    tick,        \* locals of the running check_and_notify
    get,         \* locals of the running get_subs
    cron         \* scheduler: has today's 09:00 job fired; reminder history

vars == <<today, midnights, subs, seq, cycle_day, ret, tick, get, cron>>

----------------------------------------------------------------------------
(* Bounds *)

FirstYear == 2023      \* first calendar year of the date domain
MaxYears  == 3         \* number of calendar years in the date domain
MaxSubs   == 2         \* rows in the table at most
MaxSeq    == 3         \* add_sub calls at most (ids handed out)
MaxMidnights == 2      \* date changes during one run of a handler spec

LastYear == FirstYear + MaxYears - 1

----------------------------------------------------------------------------
(* datetime.date *)

IsLeap(y) == (y % 4 = 0) /\ ((y % 100 # 0) \/ (y % 400 = 0))

DaysInMonth(y, m) ==
    IF m = 2 THEN (IF IsLeap(y) THEN 29 ELSE 28)
    ELSE IF m \in {4, 6, 9, 11} THEN 30 ELSE 31

\* datetime.date(y, m, d) raises ValueError unless the day exists
DateValid(y, m, d) == m \in 1..12 /\ d >= 1 /\ d <= DaysInMonth(y, m)

Date(y, m, d) == [year |-> y, month |-> m, day |-> d]

DaysBeforeMonth(y, m) ==
    LET cum == <<0, 31, 59, 90, 120, 151, 181, 212, 243, 273, 304, 334>>
    IN  cum[m] + (IF m > 2 /\ IsLeap(y) THEN 1 ELSE 0)

\* date.toordinal(): proleptic Gregorian day number, 0001-01-01 is day 1
ToOrdinal(dt) ==
    LET y1 == dt.year - 1
    IN  y1 * 365 + (y1 \div 4) - (y1 \div 100) + (y1 \div 400)
        + DaysBeforeMonth(dt.year, dt.month) + dt.day

\* the comparison with > in place of >=
DateGT(a, b) ==
    \/ a.year > b.year
    \/ a.year = b.year /\ a.month > b.month
    \/ a.year = b.year /\ a.month = b.month /\ a.day > b.day

\* date comparison (>=) compares (year, month, day) lexicographically
DateGE(a, b) ==
    \/ a.year > b.year
    \/ a.year = b.year /\ a.month > b.month
    \/ a.year = b.year /\ a.month = b.month /\ a.day >= b.day

\* (a - b).days
DaysBetween(a, b) == ToOrdinal(a) - ToOrdinal(b)

Digit == <<"0", "1", "2", "3", "4", "5", "6", "7", "8", "9">>

Pad2(n) == Digit[((n \div 10) % 10) + 1] \o Digit[(n % 10) + 1]

Pad4(n) == Pad2(n \div 100) \o Pad2(n % 100)

\* date.strftime("%Y-%m-%d")
StrfTime(dt) == Pad4(dt.year) \o "-" \o Pad2(dt.month) \o "-" \o Pad2(dt.day)

\* the calendar day after dt (the wall clock passing midnight)
NextDay(dt) ==
    IF dt.day < DaysInMonth(dt.year, dt.month)
    THEN Date(dt.year, dt.month, dt.day + 1)
    ELSE IF dt.month < 12 THEN Date(dt.year, dt.month + 1, 1)
    ELSE Date(dt.year + 1, 1, 1)

Dates == { Date(y, m, d) : y \in FirstYear..LastYear, m \in 1..12, d \in 1..31 }
ValidDates == { dt \in Dates : DateValid(dt.year, dt.month, dt.day) }

----------------------------------------------------------------------------
(* calculate_next_bill *)

Returned(next_bill, t) ==
    [raised |-> FALSE, next_date |-> StrfTime(next_bill),
     days_left |-> DaysBetween(next_bill, t)]

\* ValueError leaves the function; the caller gets no value
Raised(t) == [raised |-> TRUE, next_date |-> "", days_left |-> 0]

\* calculate_next_bill with the December branch building the date in
\* today.year instead of today.year + 1
calculate_next_bill_same_year(t, cd) ==
    LET this_month_bill ==
            IF DateValid(t.year, t.month, cd)
            THEN Date(t.year, t.month, cd)
            ELSE Date(t.year, t.month, 28)
    IN  IF DateGE(this_month_bill, t)
        THEN Returned(this_month_bill, t)
        ELSE IF t.month = 12
        THEN IF DateValid(t.year, 1, cd)
             THEN Returned(Date(t.year, 1, cd), t)
             ELSE Raised(t)
        ELSE IF DateValid(t.year, t.month + 1, cd)
             THEN Returned(Date(t.year, t.month + 1, cd), t)
             ELSE Returned(Date(t.year, t.month + 1, 28), t)

\* calculate_next_bill with the fallback day being the month's last day
\* instead of 28
calculate_next_bill_last_day(t, cd) ==
    LET this_month_bill ==
            IF DateValid(t.year, t.month, cd)
            THEN Date(t.year, t.month, cd)
            ELSE Date(t.year, t.month, DaysInMonth(t.year, t.month))
    IN  IF DateGE(this_month_bill, t)
        THEN Returned(this_month_bill, t)
        ELSE IF t.month = 12
        THEN IF DateValid(t.year + 1, 1, cd)
             THEN Returned(Date(t.year + 1, 1, cd), t)
             ELSE Raised(t)
        ELSE IF DateValid(t.year, t.month + 1, cd)
             THEN Returned(Date(t.year, t.month + 1, cd), t)
             ELSE Returned(Date(t.year, t.month + 1,
                                DaysInMonth(t.year, t.month + 1)), t)

\* t is the value date.today() returns inside the call
calculate_next_bill(t, cd) ==
    LET this_month_bill ==
            IF DateValid(t.year, t.month, cd)
            THEN Date(t.year, t.month, cd)
            ELSE Date(t.year, t.month, 28)
    IN  IF DateGE(this_month_bill, t)
        THEN Returned(this_month_bill, t)
        ELSE IF t.month = 12
        THEN IF DateValid(t.year + 1, 1, cd)
             THEN Returned(Date(t.year + 1, 1, cd), t)
             ELSE Raised(t)
        ELSE IF DateValid(t.year, t.month + 1, cd)
             THEN Returned(Date(t.year, t.month + 1, cd), t)
             ELSE Returned(Date(t.year, t.month + 1, 28), t)

----------------------------------------------------------------------------
(* Values of the variables a specification does not use *)

IdleTick == [pc |-> "idle", subs |-> <<>>, i |-> 0, log |-> <<>>,
             prev |-> <<>>]
IdleGet  == [pc |-> "idle", rows |-> <<>>, i |-> 0, result |-> <<>>,
             total_monthly |-> 0, upcoming_count |-> 0, seen |-> <<>>,
             response |-> <<>>]
IdleCron == [last |-> -1, sent |-> 0, whole |-> FALSE, due |-> 0]

----------------------------------------------------------------------------
(* SpecCalc: calculate_next_bill called once, on any date, with any day *)

CycleDays == -1..33     \* add_sub stores any integer (no validation)

InitCalc ==
    /\ today \in ValidDates
    /\ cycle_day \in CycleDays
    /\ ret = <<>>
    /\ midnights = 0
    /\ subs = <<>>
    /\ seq = 0
    /\ tick = IdleTick
    /\ get = IdleGet
    /\ cron = IdleCron

Call ==
    /\ ret = <<>>
    /\ ret' = <<calculate_next_bill(today, cycle_day)>>
    /\ UNCHANGED <<today, midnights, subs, seq, cycle_day, tick, get, cron>>

NextCalc == Call

SpecCalc == InitCalc /\ [][NextCalc]_vars

Called == ret # <<>>

\* C1: for cycle_day in 1..31 and any today, calculate_next_bill returns
\* (does not raise) with days_left >= 0: the due date is never before today.
C1_DaysLeftNonNegative ==
    (Called /\ cycle_day \in 1..31) =>
        (~ret[1].raised /\ ret[1].days_left >= 0)

\* a December call that rolled over into January of the next year
C1_Witness ==
    /\ Called /\ cycle_day = 5 /\ today = Date(2024, 12, 10)
    /\ ~ret[1].raised /\ ret[1].days_left = 26

\* The reference algorithm of the specification, in day numbers of the
\* month: the fallback is day 28 whenever cycle_day exceeds the month length.
RefDay(y, m, cd) == IF cd > DaysInMonth(y, m) THEN 28 ELSE cd

RefDue(t, cd) ==
    IF RefDay(t.year, t.month, cd) >= t.day
    THEN Date(t.year, t.month, RefDay(t.year, t.month, cd))
    ELSE IF t.month = 12
    THEN Date(t.year + 1, 1, RefDay(t.year + 1, 1, cd))
    ELSE Date(t.year, t.month + 1, RefDay(t.year, t.month + 1, cd))

RefDaysLeft(t, cd) ==
    IF RefDue(t, cd).month = t.month
    THEN RefDue(t, cd).day - t.day
    ELSE (DaysInMonth(t.year, t.month) - t.day) + RefDue(t, cd).day

\* C2: for cycle_day in 1..31 the call returns the reference algorithm's due
\* date (as YYYY-MM-DD) and day difference; the three worked examples of the
\* specification come out as stated.
C2_MatchesReference ==
    (Called /\ cycle_day \in 1..31) =>
        /\ ~ret[1].raised
        /\ ret[1].next_date = StrfTime(RefDue(today, cycle_day))
        /\ ret[1].days_left = RefDaysLeft(today, cycle_day)
        /\ (cycle_day = 31 /\ today = Date(2024, 2, 1)) =>
               (ret[1].next_date = "2024-02-28" /\ ret[1].days_left = 27)
        /\ (cycle_day = 15 /\ today = Date(2024, 1, 20)) =>
               (ret[1].next_date = "2024-02-15" /\ ret[1].days_left = 26)
        /\ (cycle_day = 5 /\ today = Date(2024, 12, 10)) =>
               ret[1].next_date = "2025-01-05"

\* the day-28 fallback taken in a leap-year February
C2_Witness ==
    /\ Called /\ cycle_day = 31 /\ today = Date(2024, 2, 1)
    /\ ret[1].next_date = "2024-02-28" /\ ret[1].days_left = 27

\* C9: for cycle_day > 31 and any today the call does not fail and returns
\* day 28 of the current or of the following month.
C9_OutOfRangeClamped ==
    (Called /\ cycle_day > 31) =>
        /\ ~ret[1].raised
        /\ \/ ret[1].next_date = StrfTime(Date(today.year, today.month, 28))
           \/ ret[1].next_date =
                  StrfTime(IF today.month = 12
                           THEN Date(today.year + 1, 1, 28)
                           ELSE Date(today.year, today.month + 1, 28))

----------------------------------------------------------------------------
(* SpecStore: the table subs under add_sub and delete_sub *)

Names      == {"Netflix", "iCloud"}
Prices     == {-5, 0, 12}       \* price: float, not validated
Categories == {"video"}
NoColor    == "(omitted)"       \* the request body has no color field
Colors     == {NoColor, "red"}
StoredDays == {5, 31, 32}       \* cycle_day: int, not validated

\* class Subscription: the parsed request body; color defaults to "blue"
Subscription(name, price, cd, category, color) ==
    [name |-> name, price |-> price, cycle_day |-> cd, category |-> category,
     color |-> IF color = NoColor THEN "blue" ELSE color]

SubIds(rows) == { rows[k].id : k \in 1..Len(rows) }

\* an id taken from the number of rows now in the table
AutoIncrement_row_count(rows, s) == Len(rows) + 1

\* id INTEGER PRIMARY KEY AUTOINCREMENT: one more than the largest id the
\* table ever held (sqlite_sequence), so an id is never handed out twice
AutoIncrement(rows, s) == s + 1

Row(id, sub) ==
    [id |-> id, name |-> sub.name, price |-> sub.price,
     cycle_day |-> sub.cycle_day, category |-> sub.category,
     color |-> sub.color]

RowsWithout(rows, sub_id) == SelectSeq(rows, LAMBDA r : r.id # sub_id)

\* POST /api/subs
add_sub(sub) ==
    /\ Len(subs) < MaxSubs
    /\ seq < MaxSeq
    /\ subs' = Append(subs, Row(AutoIncrement(subs, seq), sub))
    /\ seq' = seq + 1
    /\ UNCHANGED <<today, midnights, cycle_day, ret, tick, get, cron>>

\* DELETE /api/subs/{sub_id}
delete_sub(sub_id) ==
    /\ subs' = RowsWithout(subs, sub_id)
    /\ UNCHANGED <<today, midnights, seq, cycle_day, ret, tick, get, cron>>

\* init_db on a fresh sub.db: the empty table
InitStore ==
    /\ subs = <<>>
    /\ seq = 0
    /\ today = Date(FirstYear + 1, 12, 28)
    /\ midnights = 0
    /\ cycle_day = 0
    /\ ret = <<>>
    /\ tick = IdleTick
    /\ get = IdleGet
    /\ cron = IdleCron

AddSub ==
    \E name \in Names, price \in Prices, cd \in StoredDays,
       category \in Categories, color \in Colors :
        add_sub(Subscription(name, price, cd, category, color))

DeleteSub == \E sub_id \in 1..(MaxSeq + 1) : delete_sub(sub_id)

NextStore == AddSub \/ DeleteSub

SpecStore == InitStore /\ [][NextStore]_vars

RowSet(rows) == { rows[k] : k \in 1..Len(rows) }

\* C7: after any sequence of add_sub and delete_sub every stored
\* subscription has price >= 0.
C7_PriceNonNegative == \A r \in RowSet(subs) : r.price >= 0

\* C8: stored ids are pairwise distinct; a row that is still stored after a
\* step is unchanged in id and fields; delete_sub(id) removes exactly the row
\* with that id, keeps every other row, and changes nothing when no row has it.
C8_IdsUniqueAndStable ==
    /\ [](\A j, k \in 1..Len(subs) : subs[j].id = subs[k].id => j = k)
    /\ [][\A r \in RowSet(subs) :
            r.id \in SubIds(subs') => r \in RowSet(subs')]_vars
    /\ [][\A sub_id \in 1..(MaxSeq + 1) :
            delete_sub(sub_id) =>
                /\ RowSet(subs') = { r \in RowSet(subs) : r.id # sub_id }
                /\ Len(subs') = Cardinality(RowSet(subs'))
                /\ (sub_id \notin SubIds(subs) => subs' = subs)]_vars

\* a row was deleted and a new one added next to a surviving row
C8_Witness ==
    /\ Len(subs) = 2
    /\ seq = 3
    /\ SubIds(subs) = {2, 3}

----------------------------------------------------------------------------
(* The wall clock and the stores a handler can find *)

\* the date changes while a handler is running or between two handlers
Midnight ==
    /\ midnights < MaxMidnights
    /\ today' = NextDay(today)
    /\ midnights' = midnights + 1
    /\ UNCHANGED <<subs, seq, cycle_day, ret, tick, get, cron>>

HandlerPrices == {0, 12}

\* tables left by n add_sub calls on a fresh database
HandlerStores ==
    UNION { { rows \in [1..n -> [id : 1..n, name : Names, price : HandlerPrices,
                                 cycle_day : StoredDays, category : Categories,
                                 color : {"blue"}]] :
                \A k \in 1..n : rows[k].id = k } : n \in 0..MaxSubs }

\* the last days of a December and, after midnight, the following January
StartDates == { Date(FirstYear + 1, 12, d) : d \in 28..30 }

----------------------------------------------------------------------------
(* check_and_notify *)

BARK_KEY == "BARK_KEY"

RECURSIVE NatStr(_)
NatStr(n) == IF n < 10 THEN Digit[n + 1] ELSE NatStr(n \div 10) \o Digit[(n % 10) + 1]

\* str() of an int
IntStr(n) == IF n < 0 THEN "-" \o NatStr(-n) ELSE NatStr(n)

\* str() of the float a REAL column holds (whole amounts only)
FloatStr(x) == IntStr(x) \o ".0"

\* the f-strings of check_and_notify, with the texts rendered in English
Title(name) == "Subscription renewal reminder: " \o name

BodyDueIn(name, price, days_left) ==
    "Your " \o name \o " will be charged " \o FloatStr(price)
        \o " yuan in " \o IntStr(days_left) \o " days."

BodyDueToday(name, price) ==
    "Your " \o name \o " is charged " \o FloatStr(price) \o " yuan today!"

Url(title, body) ==
    "https://api.day.app/" \o BARK_KEY \o "/" \o title \o "/" \o body

\* the reminder thresholds with 1 in place of 0
ShouldNotify_3_1(days_left) == days_left = 3 \/ days_left = 1

\* if days_left == 3 or days_left == 0
ShouldNotify(days_left) == days_left = 3 \/ days_left = 0

\* NotifyOne with an exception of requests.get leaving the loop
NotifyOne_uncaught(sub, t, ok) ==
    LET name  == sub[1]
        price == sub[2]
        r     == calculate_next_bill(t, sub[3])
        body  == IF r.days_left = 0
                 THEN BodyDueToday(name, price)
                 ELSE BodyDueIn(name, price, r.days_left)
    IN  IF r.raised
        THEN [name |-> name, clock |-> t, raised |-> TRUE, days_left |-> 0,
              requests |-> <<>>, printed |-> "none"]
        ELSE IF ShouldNotify(r.days_left)
        THEN [name |-> name, clock |-> t, raised |-> ~ok,
              days_left |-> r.days_left,
              requests |-> <<Url(Title(name), body)>>,
              printed |-> IF ok THEN "push ok" ELSE "none"]
        ELSE [name |-> name, clock |-> t, raised |-> FALSE,
              days_left |-> r.days_left, requests |-> <<>>,
              printed |-> "none"]

\* The body of the for loop for one fetched row (name, price, cycle_day),
\* with t the date calculate_next_bill reads and ok whether requests.get
\* returned (TRUE) or raised (FALSE).  The result is the loop's trace entry:
\* requests are the URLs handed to requests.get, printed is what was logged,
\* raised says that ValueError left calculate_next_bill uncaught.
NotifyOne(sub, t, ok) ==
    LET name  == sub[1]
        price == sub[2]
        r     == calculate_next_bill(t, sub[3])
        body  == IF r.days_left = 0
                 THEN BodyDueToday(name, price)
                 ELSE BodyDueIn(name, price, r.days_left)
    IN  IF r.raised
        THEN [name |-> name, clock |-> t, raised |-> TRUE, days_left |-> 0,
              requests |-> <<>>, printed |-> "none"]
        ELSE IF ShouldNotify(r.days_left)
        THEN [name |-> name, clock |-> t, raised |-> FALSE,
              days_left |-> r.days_left,
              requests |-> <<Url(Title(name), body)>>,
              printed |-> IF ok THEN "push ok" ELSE "push failed"]
        ELSE [name |-> name, clock |-> t, raised |-> FALSE,
              days_left |-> r.days_left, requests |-> <<>>,
              printed |-> "none"]

RECURSIVE Requests(_)
\* every URL handed to requests.get in a run of the loop, in order
Requests(log) ==
    IF log = <<>> THEN <<>> ELSE log[1].requests \o Requests(Tail(log))

\* check_and_notify up to the loop: SELECT name, price, cycle_day FROM subs
TickStart ==
    /\ tick.pc = "idle"
    /\ tick' = [tick EXCEPT
                  !.pc = IF subs = <<>> THEN "done" ELSE "loop",
                  !.subs = [k \in 1..Len(subs) |->
                              <<subs[k].name, subs[k].price, subs[k].cycle_day>>],
                  !.i = 1,
                  !.log = <<>>]
    /\ UNCHANGED <<today, midnights, subs, seq, cycle_day, ret, get, cron>>

\* one iteration of the loop; an uncaught exception ends check_and_notify
TickStep ==
    /\ tick.pc = "loop"
    /\ \E ok \in BOOLEAN :
        LET e == NotifyOne(tick.subs[tick.i], today, ok)
        IN  tick' = [tick EXCEPT
                       !.log = Append(@, e),
                       !.i = IF e.raised THEN @ ELSE @ + 1,
                       !.pc = IF e.raised THEN "raised"
                              ELSE IF tick.i = Len(tick.subs) THEN "done"
                              ELSE "loop"]
    /\ UNCHANGED <<today, midnights, subs, seq, cycle_day, ret, get, cron>>

\* the job is over (returned or raised into the scheduler, which logs it);
\* prev keeps what this run handed to the transport and on which dates
TickReturn ==
    /\ tick.pc \in {"done", "raised"}
    /\ tick' = [IdleTick EXCEPT
                  !.prev = <<[requests |-> Requests(tick.log),
                             clocks |-> { tick.log[k].clock :
                                            k \in 1..Len(tick.log) },
                             pc |-> tick.pc]>>]
    /\ UNCHANGED <<today, midnights, subs, seq, cycle_day, ret, get, cron>>

InitHandlers ==
    /\ today \in StartDates
    /\ midnights = 0
    /\ subs \in HandlerStores
    /\ seq = Len(subs)
    /\ cycle_day = 0
    /\ ret = <<>>
    /\ tick = IdleTick
    /\ get = IdleGet
    /\ cron = IdleCron

NextTick == TickStart \/ TickStep \/ TickReturn \/ Midnight

SpecTick == InitHandlers /\ [][NextTick]_vars

LogClocks(log) == { log[k].clock : k \in 1..Len(log) }

\* C3: in every run of check_and_notify, each evaluated subscription is
\* handed to the transport exactly when the days_left computed for it in that
\* run is 3 or 0, with the due-today body for 0 and the due-in-N-days body
\* for 3; a run that follows a complete run on the same date hands over the
\* same notifications again.
C3_NotifyExactlyAt3And0 ==
    /\ \A k \in 1..Len(tick.log) :
        LET e   == tick.log[k]
            sub == tick.subs[k]
            r   == calculate_next_bill(e.clock, sub[3])
        IN  ~e.raised =>
              /\ e.days_left = r.days_left
              /\ (e.days_left \notin {0, 3}) => e.requests = <<>>
              /\ (e.days_left = 0) =>
                    e.requests = <<Url(Title(sub[1]), BodyDueToday(sub[1], sub[2]))>>
              /\ (e.days_left = 3) =>
                    e.requests = <<Url(Title(sub[1]), BodyDueIn(sub[1], sub[2], 3))>>
              /\ (e.days_left = 3 /\ sub[1] = "Netflix" /\ sub[2] = 12) =>
                    e.requests = <<"https://api.day.app/BARK_KEY/Subscription renewal reminder: Netflix/Your Netflix will be charged 12.0 yuan in 3 days.">>
              /\ (e.days_left = 0 /\ sub[1] = "iCloud" /\ sub[2] = 0) =>
                    e.requests = <<"https://api.day.app/BARK_KEY/Subscription renewal reminder: iCloud/Your iCloud is charged 0.0 yuan today!">>
    /\ (/\ tick.pc = "done"
        /\ tick.prev # <<>>
        /\ tick.prev[1].pc = "done"
        /\ tick.prev[1].clocks = LogClocks(tick.log)
        /\ Cardinality(LogClocks(tick.log)) <= 1)
       => Requests(tick.log) = tick.prev[1].requests

\* a second run on the same date: one reminder three days ahead, one on the
\* due date, both sent in the first run already
C3_Witness ==
    /\ tick.pc = "done"
    /\ Len(tick.log) = 2
    /\ tick.log[1].days_left = 3
    /\ tick.log[2].days_left = 0
    /\ Len(Requests(tick.log)) = 2
    /\ tick.prev # <<>>
    /\ tick.prev[1].requests = Requests(tick.log)
    /\ tick.prev[1].clocks = LogClocks(tick.log)
    /\ midnights = 0

\* C5: a failed transport call is made once, is not raised out of
\* check_and_notify and does not stop the loop: the next subscription is
\* evaluated next, every subscription evaluated after it whose days_left is
\* 3 or 0 is attempted, and a run that returns has evaluated every fetched
\* subscription.  The only exception leaving the loop is calculate_next_bill's.
C5_TransportFailureContained ==
    /\ \A k \in 1..Len(tick.log) :
        LET e == tick.log[k]
        IN  /\ Len(e.requests) <= 1
            /\ e.printed # "none" => Len(e.requests) = 1
            /\ e.raised => (e.requests = <<>> /\ k = Len(tick.log))
            /\ e.printed = "push failed" =>
                  /\ ~e.raised
                  /\ \/ k < Len(tick.log)
                     \/ tick.pc = "loop" /\ tick.i = k + 1 /\ k < Len(tick.subs)
                     \/ tick.pc = "done" /\ k = Len(tick.subs)
                  /\ \A j \in (k + 1)..Len(tick.log) :
                        (~tick.log[j].raised /\ tick.log[j].days_left \in {0, 3})
                            => Len(tick.log[j].requests) = 1
    /\ tick.pc = "raised" =>
          (tick.log # <<>> /\ tick.log[Len(tick.log)].raised)
    /\ tick.pc = "done" => Len(tick.log) = Len(tick.subs)

\* the first send failed, the second subscription was still notified
C5_Witness ==
    /\ tick.pc = "done"
    /\ Len(tick.log) = 2
    /\ tick.log[1].printed = "push failed"
    /\ tick.log[2].printed = "push ok"

----------------------------------------------------------------------------
(* get_subs *)

\* if days_left <= 7
IsUpcoming(days_left) == days_left <= 7

RECURSIVE InsertByDaysLeft(_, _)
\* x placed behind every entry whose days_left is not larger
InsertByDaysLeft(x, sorted) ==
    IF sorted = <<>> THEN <<x>>
    ELSE IF sorted[1].days_left <= x.days_left
    THEN <<sorted[1]>> \o InsertByDaysLeft(x, Tail(sorted))
    ELSE <<x>> \o sorted

\* the listing left in insertion order
SortByDaysLeft_unsorted(result) == result

RECURSIVE SortByDaysLeft(_)
\* result.sort(key=lambda x: x['days_left']): ascending and stable
SortByDaysLeft(result) ==
    IF result = <<>> THEN <<>>
    ELSE InsertByDaysLeft(result[Len(result)],
                          SortByDaysLeft(SubSeq(result, 1, Len(result) - 1)))

Response(result, total_monthly, upcoming_count) ==
    [subscriptions |-> SortByDaysLeft(result),
     summary |-> [monthly_total |-> total_monthly,
                  yearly_total |-> total_monthly * 12,
                  upcoming |-> upcoming_count]]

\* get_subs up to the loop: SELECT * FROM subs; an empty table is answered
\* at once
GetStart ==
    /\ get.pc = "idle"
    /\ get' = [get EXCEPT
                  !.pc = IF subs = <<>> THEN "returned" ELSE "loop",
                  !.rows = subs,
                  !.i = 1,
                  !.response = IF subs = <<>> THEN <<Response(<<>>, 0, 0)>>
                               ELSE <<>>]
    /\ UNCHANGED <<today, midnights, subs, seq, cycle_day, ret, tick, cron>>

\* one iteration of the loop; after the last row the list is sorted and the
\* response returned; ValueError from calculate_next_bill ends the request
GetStep ==
    /\ get.pc = "loop"
    /\ LET row   == get.rows[get.i]
           r     == calculate_next_bill(today, row.cycle_day)
           total == get.total_monthly + row.price
           upc   == get.upcoming_count + (IF IsUpcoming(r.days_left) THEN 1 ELSE 0)
           res   == Append(get.result,
                           [id |-> row.id, name |-> row.name, price |-> row.price,
                            cycle_day |-> row.cycle_day,
                            category |-> row.category, color |-> row.color,
                            next_date |-> r.next_date,
                            days_left |-> r.days_left])
       IN  IF r.raised
           THEN get' = [get EXCEPT !.pc = "raised", !.seen = Append(@, today)]
           ELSE get' = [get EXCEPT
                          !.pc = IF get.i = Len(get.rows) THEN "returned" ELSE "loop",
                          !.i = @ + 1,
                          !.total_monthly = total,
                          !.upcoming_count = upc,
                          !.result = res,
                          !.seen = Append(@, today),
                          !.response = IF get.i = Len(get.rows)
                                       THEN <<Response(res, total, upc)>>
                                       ELSE <<>>]
    /\ UNCHANGED <<today, midnights, subs, seq, cycle_day, ret, tick, cron>>

\* the response (or the error) has gone to the client
GetClose ==
    /\ get.pc \in {"returned", "raised"}
    /\ get' = IdleGet
    /\ UNCHANGED <<today, midnights, subs, seq, cycle_day, ret, tick, cron>>

NextList == GetStart \/ GetStep \/ GetClose \/ Midnight

SpecList == InitHandlers /\ [][NextList]_vars

RECURSIVE SumPrices(_)
SumPrices(rows) ==
    IF rows = <<>> THEN 0 ELSE rows[1].price + SumPrices(Tail(rows))

\* C4: in one listing response every subscription's days_left is computed
\* against the same date.
C4_OneTodayPerResponse ==
    get.pc = "returned" =>
        \A j, k \in 1..Len(get.seen) : get.seen[j] = get.seen[k]

\* C6: the response has one entry per stored subscription, with the stored
\* fields, in non-decreasing order of days_left; upcoming is the number of
\* entries with days_left <= 7 and monthly_total the sum of the stored prices.
C6_ListingSortedAndSummed ==
    get.pc = "returned" =>
        LET list == get.response[1].subscriptions
            sum  == get.response[1].summary
        IN  /\ Len(list) = Len(subs)
            /\ \A r \in RowSet(subs) :
                  Cardinality({ k \in 1..Len(list) :
                      /\ list[k].id = r.id /\ list[k].name = r.name
                      /\ list[k].price = r.price
                      /\ list[k].cycle_day = r.cycle_day
                      /\ list[k].category = r.category
                      /\ list[k].color = r.color }) = 1
            /\ \A k \in 1..(Len(list) - 1) :
                  list[k].days_left <= list[k + 1].days_left
            /\ sum.upcoming =
                  Cardinality({ k \in 1..Len(list) : list[k].days_left <= 7 })
            /\ sum.monthly_total = SumPrices(subs)

\* a listing that had to reorder: the first stored row is due later
C6_Witness ==
    /\ get.pc = "returned"
    /\ Len(get.result) = 2
    /\ get.result[1].days_left > get.result[2].days_left
    /\ get.response[1].subscriptions[1].id = 2
    /\ get.result[1].days_left = 7
    /\ get.response[1].summary.upcoming = 2
    /\ get.response[1].summary.monthly_total = 12

----------------------------------------------------------------------------
(* SpecDaily: the scheduler's cron job, check_and_notify once a day at 09:00, *)
(* over a table with one subscription, day after day                         *)

MonthIndex(dt) == dt.year * 12 + dt.month

\* The date changes after the day's job has run.  cron keeps, for the runs
\* so far: last, the days_left of the latest run; sent, the notifications
\* handed over since the latest due date; whole, whether a due date has been
\* seen (the running cycle is observed from its first day); due, the month
\* of the latest due date.
DayPasses ==
    /\ tick.pc = "done"
    /\ NextDay(today).year <= LastYear
    /\ today' = NextDay(today)
    /\ LET e == tick.log[1]
       IN  cron' = [last  |-> e.days_left,
                    sent  |-> IF e.days_left = 0 THEN 0
                              ELSE cron.sent + Len(e.requests),
                    whole |-> cron.whole \/ e.days_left = 0,
                    due   |-> IF e.days_left = 0 THEN MonthIndex(today)
                              ELSE cron.due]
    /\ tick' = IdleTick
    /\ UNCHANGED <<midnights, subs, seq, cycle_day, ret, get>>

InitDaily ==
    /\ today \in { dt \in ValidDates : dt.year = FirstYear }
    /\ midnights = 0
    /\ \E cd \in 1..31 :
         subs = <<Row(1, Subscription("Netflix", 12, cd, "video", NoColor))>>
    /\ seq = 1
    /\ cycle_day = 0
    /\ ret = <<>>
    /\ tick = IdleTick
    /\ get = IdleGet
    /\ cron = IdleCron

NextDaily == TickStart \/ TickStep \/ DayPasses

SpecDaily == InitDaily /\ [][NextDaily]_vars

\* C10: from one daily run to the next, days_left goes down by exactly 1
\* while it is positive and jumps to at least 27 on the day after it was 0;
\* each due date falls in the month after the previous one and, in a cycle
\* seen from its first day, is reached with exactly one notification handed
\* over before it (the one three days ahead) and one on the day itself.
C10_CountdownOneReminderPerCycle ==
    tick.pc = "done" =>
        LET e == tick.log[1]
        IN  /\ ~e.raised
            /\ cron.last > 0 => e.days_left = cron.last - 1
            /\ cron.last = 0 => e.days_left >= 27
            /\ (e.days_left = 0 /\ cron.due # 0) =>
                  MonthIndex(today) = cron.due + 1
            /\ (e.days_left = 0 /\ cron.whole) =>
                  (cron.sent = 1 /\ Len(e.requests) = 1)
            /\ (e.days_left = 3) => (cron.sent = 0 /\ Len(e.requests) = 1)

\* the due date of a 31st-of-month subscription reached on 28 February of a
\* leap year, after the reminder of 25 February
C10_Witness ==
    /\ tick.pc = "done"
    /\ subs[1].cycle_day = 31
    /\ today = Date(FirstYear + 1, 2, 28)
    /\ tick.log[1].days_left = 0
    /\ cron.last = 1
    /\ cron.whole
    /\ cron.sent = 1

====
